---- MODULE Spec2Model ----
(***************************************************************************)
(* Four Quantopian trading algorithms (Value long-only, Magic Formula,     *)
(* Acquirer's Multiple, Piotroski F-Score long/short) as state machines    *)
(* driven by the platform's clock, and their numeric helpers (nanfill,     *)
(* TrailingTwelveMonths) as operators.                                     *)
(***************************************************************************)
EXTENDS Integers, Sequences, FiniteSets, TLC

VARIABLES
    nf_in,      \* nanfill: the array handed in (rows = time, columns = assets)
    nf_out,     \* nanfill: the array returned
    nf_done,    \* nanfill: whether the call has returned
    ttm_values, \* TrailingTwelveMonths: one asset's column of values
    ttm_dates,  \* TrailingTwelveMonths: the same asset's column of as-of dates
    ttm_factor, \* TrailingTwelveMonths: out.factor for the asset
    ttm_asof,   \* TrailingTwelveMonths: out.asof_date for the asset
    ttm_done,   \* TrailingTwelveMonths: whether compute has returned
    pipeline_out,  \* the rows today's pipeline ranks, each with its sort key
    fx_ebit,     \* ratio factors: EBIT (Magic Formula) or TTM EBIT (Acquirer) per asset
    fx_ev,       \* ratio factors: enterprise value per asset
    fx_roic,     \* Magic Formula: return on invested capital per asset
    fx_universe, \* the assets that pass the universe filters of the pipeline
    fx_ratio,    \* the ratio computed: earnings_yield or ev_over_ebit per asset
    fx_stage,    \* how far today's pipeline run has come
    vol_close,    \* Value: the 15-day window of closes (rows = days, columns = assets)
    vol_universe, \* Value: the assets of `universe` in make_pipeline
    vol_momentum, \* Value: the assets with momentum > 1
    vol_out,      \* Value: the output of Volatility.compute per asset
    vol_rank,     \* Value: volatility_rank per asset
    vol_screen,   \* Value: the assets that pass the screen of the pipeline
    vol_stage,    \* Value: how far the screen's computation has come
    algo,          \* which of the four algorithms this backtest runs
    month,         \* get_datetime('US/Eastern').month of the current trading day
    day,           \* the current trading day's number within its month
    pc,            \* the next slot of the day's callback schedule
    raised,        \* an exception escaped a callback: the platform stops the run
    positions,     \* context.portfolio.positions: asset -> -1 short, 0 none, 1 long
    log,           \* the orders submitted to the platform today, in order
    can_trade,     \* the assets data.can_trade answered True for in the last callback
    held,          \* context.portfolio.positions as the last callback found it
    last,          \* the callback that ran last, and whether its guard let it act
    written_today, \* before_trading_start has written the selection list(s) today
    long_list,     \* Value: context.long_list (its index)
    buy_list,      \* Magic Formula: context.buy_list (its index)
    weight,        \* Magic Formula: context.weight
    month_to_run,  \* Acquirer's Multiple: context.month_to_run
    security_list, \* Acquirer's Multiple: context.security_list
    history,       \* Acquirer's Multiple: rebalanceNow of the last invocations of rebalance
    is_month_end,  \* Piotroski: context.is_month_end
    long_stocks,   \* Piotroski: context.long_stocks (its index)
    short_stocks   \* Piotroski: context.short_stocks (its index)

nfVars  == <<nf_in, nf_out, nf_done>>
ttmVars == <<ttm_values, ttm_dates, ttm_factor, ttm_asof, ttm_done>>
pipeVars == <<pipeline_out>>
ratioVars == <<fx_ebit, fx_ev, fx_roic, fx_universe, fx_ratio, fx_stage>>
volVars ==
    <<vol_close, vol_universe, vol_momentum, vol_out, vol_rank, vol_screen,
      vol_stage>>
engineVars == <<nfVars, ttmVars, pipeVars, ratioVars, volVars>>
clockVars == <<algo, month, day, pc, raised>>
bookVars == <<positions, log, can_trade, held, last>>
freshVars == <<written_today>>
valueVars == <<long_list>>
magicVars == <<buy_list, weight>>
acquirerVars == <<month_to_run, security_list, history>>
piotroskiVars == <<is_month_end, long_stocks, short_stocks>>
algoVars ==
    <<clockVars, bookVars, freshVars, valueVars, magicVars, acquirerVars,
      piotroskiVars>>

(***************************************************************************)
(* Generic helpers                                                         *)
(***************************************************************************)
RECURSIVE SeqSum(_)
SeqSum(s) == IF s = <<>> THEN 0 ELSE Head(s) + SeqSum(Tail(s))

SetMax(S) == CHOOSE x \in S : \A y \in S : y <= x

SetMin(S) == CHOOSE x \in S : \A y \in S : x <= y

\* The strictly increasing enumeration of a finite set of integers.
RECURSIVE SortedSeq(_)
SortedSeq(S) ==
    IF S = {} THEN <<>> ELSE <<SetMin(S)>> \o SortedSeq(S \ {SetMin(S)})

(***************************************************************************)
(* nanfill (My_Value_Long_only_Algo.py)                                    *)
(***************************************************************************)
\* np.nan, kept apart from every data value (data values are >= 1).
NaN == -1

\* window_length of the six factors that call nanfill
WindowLength == 1

\* Bounds of the nanfill inputs
MaxAssets == 4
MaxValue == 2

NFValues == {NaN} \cup (1..MaxValue)

\* mask = np.isnan(arr)
NFMask(arr) == [i \in DOMAIN arr |-> [j \in DOMAIN arr[i] |-> arr[i][j] = NaN]]

\* idx = np.where(~mask, np.arange(mask.shape[1]), 0): the 0-based COLUMN
\* number where the entry is a number, 0 where it is NaN.
NFIdx(arr) ==
    [i \in DOMAIN arr |->
        [j \in DOMAIN arr[i] |-> IF NFMask(arr)[i][j] THEN 0 ELSE j - 1]]

\* np.maximum.accumulate(idx, axis=1, out=idx): running maximum along each
\* row, i.e. across the columns of one row.
NFAccumulate(idx) ==
    [i \in DOMAIN idx |->
        [j \in DOMAIN idx[i] |-> SetMax({idx[i][k] : k \in 1..j})]]

\* arr[mask] = arr[np.nonzero(mask)[0], idx[mask]]; return arr
nanfill(arr) ==
    LET idx == NFAccumulate(NFIdx(arr))
    IN  [i \in DOMAIN arr |->
            [j \in DOMAIN arr[i] |->
                IF NFMask(arr)[i][j] THEN arr[i][idx[i][j] + 1] ELSE arr[i][j]]]

NFArrays ==
    UNION {[1..WindowLength -> [1..c -> NFValues]] : c \in 1..MaxAssets}

NFInit ==
    /\ nf_in \in NFArrays
    /\ nf_out = <<>>
    /\ nf_done = FALSE

\* Price_to_Book.compute and its five siblings: pb = nanfill(pb); out[:] = pb
FactorCompute ==
    /\ ~nf_done
    /\ nf_out' = nanfill(nf_in)
    /\ nf_done' = TRUE
    /\ UNCHANGED nf_in

(***************************************************************************)
(* TrailingTwelveMonths.compute (Developed on Black_Cat_Acquirer_Multiple) *)
(***************************************************************************)
\* np.timedelta64(52, 'W'); dates are counted in weeks.
Weeks52 == 52

\* Bounds of the TrailingTwelveMonths inputs
TTMWindow == 5

\* Sample as-of dates (weeks): they allow five distinct dates inside the 52
\* weeks, a date exactly 52 weeks before the last one, and older dates.
TTMDateSet == {0, 4, 13, 26, 39, 52, 56}

TTMValueSet == {10, 3}

\* d + np.timedelta64(52, 'W') > d[-1], the boolean mask over the rows
TTMMask(d) == [i \in DOMAIN d |-> d[i] + Weeks52 > d[Len(d)]]

\* x[mask]: the rows of x where the mask is set, in order
RECURSIVE BoolIndex(_, _)
BoolIndex(x, mask) ==
    IF x = <<>> THEN <<>>
    ELSE (IF Head(mask) THEN <<Head(x)>> ELSE <<>>)
             \o BoolIndex(Tail(x), Tail(mask))

\* The index of the last occurrence of each distinct value instead of the
\* first (what a dict keyed by date, or drop_duplicates(keep='last'), gives).
UniqueFirstIndex_Last(a) ==
    LET vals == SortedSeq({a[i] : i \in DOMAIN a})
    IN  [k \in DOMAIN vals |-> SetMax({i \in DOMAIN a : a[i] = vals[k]})]

\* np.unique(a, return_index=True)[1]: for each distinct value of a, in
\* increasing order of the value, the index of its first occurrence.
UniqueFirstIndex(a) ==
    LET vals == SortedSeq({a[i] : i \in DOMAIN a})
    IN  [k \in DOMAIN vals |-> SetMin({i \in DOMAIN a : a[i] = vals[k]})]

\* out.factor for one (v, d) of zip(values.T, dates.T)
TTMFactor(v, d) ==
    LET mask == TTMMask(d)
        vm   == BoolIndex(v, mask)
        dm   == BoolIndex(d, mask)
        ix   == UniqueFirstIndex(dm)
    IN  SeqSum([k \in DOMAIN ix |-> vm[ix[k]]])

\* out.asof_date[:] = dates[-1]
TTMAsof(d) == d[Len(d)]

NonDecreasing(d) == \A i \in 1..(Len(d) - 1) : d[i] <= d[i + 1]

TTMInit ==
    /\ ttm_dates \in {d \in [1..TTMWindow -> TTMDateSet] : NonDecreasing(d)}
    /\ ttm_values \in [1..TTMWindow -> TTMValueSet]
    /\ ttm_factor = 0
    /\ ttm_asof = 0
    /\ ttm_done = FALSE

TTMCompute ==
    /\ ~ttm_done
    /\ ttm_factor' = TTMFactor(ttm_values, ttm_dates)
    /\ ttm_asof' = TTMAsof(ttm_dates)
    /\ ttm_done' = TRUE
    /\ UNCHANGED <<ttm_values, ttm_dates>>

(***************************************************************************)
(* Weights as exact fractions (the code's floats)                          *)
(***************************************************************************)
RECURSIVE GCD(_, _)
GCD(a, b) == IF b = 0 THEN a ELSE GCD(b, a % b)

Abs(x) == IF x < 0 THEN -x ELSE x

Min(a, b) == IF a <= b THEN a ELSE b

\* num/den with den > 0, in lowest terms
Frac(n, d) ==
    LET g == GCD(Abs(n), d) IN [num |-> n \div g, den |-> d \div g]

Zero == Frac(0, 1)

FAdd(a, b) == Frac(a.num * b.den + b.num * a.den, a.den * b.den)

FAbs(a) == [num |-> Abs(a.num), den |-> a.den]

FNeg(a) == [num |-> -a.num, den |-> a.den]

FLess(a, b) == a.num * b.den < b.num * a.den

FLeq(a, b) == a.num * b.den <= b.num * a.den

FTimes(k, a) == Frac(k * a.num, a.den)

\* What a float division by zero produces: Python raises ZeroDivisionError.
ZeroDivisionError == [num |-> 0, den |-> 0]

\* a / float(n)
FDiv(a, n) == IF n = 0 THEN ZeroDivisionError ELSE Frac(a.num, a.den * n)

(***************************************************************************)
(* The platform: assets, pipeline output, sorting, the clock, the orders   *)
(***************************************************************************)
\* Bounds: the assets of a backtest, the sample of factor scores, the
\* trading days of a month.
NumSec == 2
MaxScore == 2
DaysPerMonth == 5

\* today.month runs over 1..12
MonthsPerYear == 12

Securities == 1..NumSec

\* The assets the book is kept for (the domain of the positions).
Universe == DOMAIN positions

\* A pipeline output: the rows (assets that passed the screen), each with
\* the value of the column the algorithm sorts by.
Frames(S, V) == UNION {[R -> V] : R \in SUBSET S}

\* The orders in which a sort may leave rows of equal key: pandas sorts
\* with quicksort, which is not stable.
TieBreaks == {p \in [Securities -> Securities] : \A s \in Securities : \E i \in Securities : p[i] = s}

Pos(tb, s) == CHOOSE i \in DOMAIN tb : tb[i] = s

\* Whether row a comes before row b in df.sort_values(col, ascending=asc):
\* NaN last either way, rows of equal key in the order tb.
Before(df, asc, tb, a, b) ==
    IF df[a] = NaN \/ df[b] = NaN
    THEN \/ df[a] # NaN /\ df[b] = NaN
         \/ df[a] = NaN /\ df[b] = NaN /\ Pos(tb, a) < Pos(tb, b)
    ELSE \/ asc /\ df[a] < df[b]
         \/ ~asc /\ df[a] > df[b]
         \/ df[a] = df[b] /\ Pos(tb, a) < Pos(tb, b)

\* df.sort_values(col, ascending=asc).index
SortValues(df, asc, tb) ==
    [i \in 1..Cardinality(DOMAIN df) |->
        CHOOSE s \in DOMAIN df :
            Cardinality({t \in DOMAIN df : Before(df, asc, tb, t, s)}) = i - 1]

\* .head(n) and .iloc[:n]
HeadN(seq, n) == SubSeq(seq, 1, Min(n, Len(seq)))

\* A dropna() that drops nothing
Dropna_Keep(seq, df) == seq

\* .dropna(): the rows without a NaN
Dropna(seq, df) == SelectSeq(seq, LAMBDA s : df[s] # NaN)

Range(seq) == {seq[i] : i \in DOMAIN seq}

\* One order as the platform receives it.
Order(fn, api, s, target, ct) ==
    [fn |-> fn, api |-> api, sec |-> s, target |-> target, tradable |-> s \in ct]

\* for s in seq: if cond(s): order(s, target)
RECURSIVE OrdersFor(_, _, _, _, _, _)
OrdersFor(seq, ok, fn, api, target, ct) ==
    IF seq = <<>> THEN <<>>
    ELSE (IF Head(seq) \in ok
          THEN <<Order(fn, api, Head(seq), target, ct)>> ELSE <<>>)
             \o OrdersFor(Tail(seq), ok, fn, api, target, ct)

Sign(f) == IF f.num > 0 THEN 1 ELSE IF f.num < 0 THEN -1 ELSE 0

\* The platform fills the orders in turn: an order for a tradable asset moves
\* the position to the side of its target, another leaves it as it is.
RECURSIVE Fill(_, _)
Fill(pos, orders) ==
    IF orders = <<>> THEN pos
    ELSE LET o == Head(orders)
         IN  Fill(IF o.tradable THEN [pos EXCEPT ![o.sec] = Sign(o.target)] ELSE pos,
                  Tail(orders))

Held(pos) == {s \in DOMAIN pos : pos[s] # 0}

\* The callbacks of a day in the order the platform runs them: before_trading_start,
\* then the scheduled functions at market open, then those at market close.
Schedule(a) ==
    CASE a = "value" -> <<"before_trading_start", "rebalance">>
      [] a = "magic" ->
            <<"before_trading_start", "buying_in_January", "sell_in_December">>
      [] a = "acquirer" -> <<"before_trading_start", "rebalance">>
      [] a = "piotroski" ->
            <<"before_trading_start", "set_month_end", "trade_long",
              "trade_short", "trade">>

\* date_rules.month_start(days_offset=4) of buying_in_January
BuyDaysOffset == 4

\* date_rules.month_end(1) of set_month_end
SetMonthEndOffset == 1

\* The date rule each callback was scheduled with.
Due(a, fn, d) ==
    CASE fn = "before_trading_start" -> TRUE
      [] fn = "rebalance" -> d = 1
      [] fn = "buying_in_January" -> d = Min(BuyDaysOffset + 1, DaysPerMonth)
      [] fn = "sell_in_December" -> TRUE
      [] fn = "set_month_end" -> d = DaysPerMonth - SetMonthEndOffset
      [] fn \in {"trade_long", "trade_short", "trade"} -> d = DaysPerMonth

\* The slots of today's schedule still to run.
Pending == {k \in pc..Len(Schedule(algo)) : Due(algo, Schedule(algo)[k], day)}

\* Callback fn of algorithm a is the next one the platform runs.
Runs(a, fn) ==
    /\ ~raised
    /\ algo = a
    /\ Pending # {}
    /\ Schedule(a)[SetMin(Pending)] = fn

Ran ==
    /\ pc' = SetMin(Pending) + 1
    /\ UNCHANGED <<algo, month, day>>
    /\ UNCHANGED engineVars

\* The next trading day opens once the day's callbacks have run.
NextDay ==
    /\ ~raised
    /\ Pending = {}
    /\ pc' = 1
    /\ day' = IF day = DaysPerMonth THEN 1 ELSE day + 1
    /\ month' = IF day < DaysPerMonth THEN month
                ELSE IF month = MonthsPerYear THEN 1 ELSE month + 1
    /\ log' = <<>>
    /\ last' = [fn |-> "none", acted |-> FALSE]
    /\ can_trade' = {}
    /\ held' = Held(positions)
    /\ written_today' = FALSE
    /\ UNCHANGED <<algo, raised, positions>>
    /\ UNCHANGED <<valueVars, magicVars, acquirerVars, piotroskiVars>>
    /\ UNCHANGED engineVars

\* A callback that places no order.
NoOrders(fn) ==
    /\ last' = [fn |-> fn, acted |-> FALSE]
    /\ can_trade' = {}
    /\ held' = Held(positions)
    /\ UNCHANGED <<positions, log, raised>>

\* A callback that submits orders while the platform reports ct tradable.
Submit(fn, orders, ct) ==
    /\ last' = [fn |-> fn, acted |-> TRUE]
    /\ can_trade' = ct
    /\ held' = Held(positions)
    /\ log' = log \o orders
    /\ positions' = Fill(positions, orders)
    /\ UNCHANGED raised

\* A callback that an exception leaves: the platform stops the backtest.
Raise(fn) ==
    /\ last' = [fn |-> fn, acted |-> FALSE]
    /\ raised' = TRUE
    /\ can_trade' = {}
    /\ held' = Held(positions)
    /\ UNCHANGED <<positions, log>>

(***************************************************************************)
(* My_Value_Long_only_Algo.py                                              *)
(***************************************************************************)
MAX_GROSS_LEVERAGE == Frac(1, 1)

MAX_LONG_POSITION_SIZE == Frac(4, 100)

\* the 25 of .iloc[:25] and .head(25)
TopCount == 25

\* the literal 0.04 the weight is set to when it exceeds the cap
CappedWeight == Frac(4, 100)

\* context.long_list = context.output.sort_values(['ranking_score'],
\*     ascending=True).iloc[:25].dropna()
ValueLongList(output, tb) ==
    Dropna(HeadN(SortValues(output, TRUE, tb), TopCount), output)

\* The long lists the pipeline outputs of outputs give, the sort leaving
\* rows of equal key in one of the orders tbs.
ValueLongLists(outputs, tbs) ==
    {ValueLongList(output, tb) : output \in outputs, tb \in tbs}

\* lists: the long lists today's pipeline output may give
V_before_trading_start(lists) ==
    /\ Runs("value", "before_trading_start")
    /\ \E list \in lists : long_list' = list
    /\ written_today' = TRUE
    /\ NoOrders("before_trading_start")
    /\ Ran
    /\ UNCHANGED <<magicVars, acquirerVars, piotroskiVars>>

\* The division without the test of len(context.long_list) != 0
UncappedWeight_Unguarded(n) == FDiv(MAX_GROSS_LEVERAGE, n)

\* long_weight before the cap: MAX_GROSS_LEVERAGE / float(len(long_list)), or 0
UncappedWeight(n) == IF n # 0 THEN FDiv(MAX_GROSS_LEVERAGE, n) ELSE Zero

\* The weight without the test against MAX_LONG_POSITION_SIZE
CapWeight_None(w) == w

\* if long_weight > MAX_LONG_POSITION_SIZE: long_weight = 0.04
CapWeight(w) == IF FLess(MAX_LONG_POSITION_SIZE, w) THEN CappedWeight ELSE w

LongWeight(n) ==
    IF UncappedWeight(n) = ZeroDivisionError THEN ZeroDivisionError
    ELSE CapWeight(UncappedWeight(n))

\* The two loops of rebalance: buy the long list, sell what left it.
ValueOrders(list, pos, ct) ==
    OrdersFor(list, ct, "rebalance", "order_target_percent",
              LongWeight(Len(list)), ct)
    \o OrdersFor(SortedSeq(Held(pos)), ct \ Range(list), "rebalance",
                 "order_target", Zero, ct)

V_rebalance(ct) ==
    /\ Runs("value", "rebalance")
    /\ IF LongWeight(Len(long_list)) = ZeroDivisionError
       THEN Raise("rebalance")
       ELSE Submit("rebalance", ValueOrders(long_list, positions, ct), ct)
    /\ Ran
    /\ UNCHANGED <<valueVars, magicVars, acquirerVars, piotroskiVars>>
    /\ UNCHANGED freshVars

(***************************************************************************)
(* My_Magic_Formula.py                                                     *)
(***************************************************************************)
MF_MAX_GROSS_LEVERAGE == Frac(1, 1)

MF_MAX_LONG_POSITION_SIZE == Frac(4, 100)

\* the 25 of .head(25)
MF_HeadCount == 25

\* the literal 0.04 context.weight is set to when it exceeds the cap
MF_CappedWeight == Frac(4, 100)

\* context.buy_list = context.output.sort_values(['MagicFormula_rank'],
\*     ascending=True).head(25).dropna()
MagicBuyList(output, tb) ==
    Dropna(HeadN(SortValues(output, TRUE, tb), MF_HeadCount), output)

\* context.weight before the cap
MF_UncappedWeight(n) == IF n # 0 THEN FDiv(MF_MAX_GROSS_LEVERAGE, n) ELSE Zero

\* A weight above the cap scaled by the cap instead of set to it
MF_CapWeight_Scaled(w) ==
    IF FLess(MF_MAX_LONG_POSITION_SIZE, w)
    THEN Frac(w.num * MF_MAX_LONG_POSITION_SIZE.num,
              w.den * MF_MAX_LONG_POSITION_SIZE.den)
    ELSE w

\* if context.weight > MAX_LONG_POSITION_SIZE: context.weight = 0.04
MF_CapWeight(w) ==
    IF FLess(MF_MAX_LONG_POSITION_SIZE, w) THEN MF_CappedWeight ELSE w

MagicWeight(n) ==
    IF MF_UncappedWeight(n) = ZeroDivisionError THEN ZeroDivisionError
    ELSE MF_CapWeight(MF_UncappedWeight(n))

MagicBuyLists(outputs, tbs) ==
    {MagicBuyList(output, tb) : output \in outputs, tb \in tbs}

M_before_trading_start(lists) ==
    /\ Runs("magic", "before_trading_start")
    /\ \E list \in lists : buy_list' = list
    /\ written_today' = TRUE
    /\ IF MagicWeight(Len(buy_list')) = ZeroDivisionError
       THEN Raise("before_trading_start") /\ UNCHANGED weight
       ELSE NoOrders("before_trading_start")
                /\ weight' = MagicWeight(Len(buy_list'))
    /\ Ran
    /\ UNCHANGED <<valueVars, acquirerVars, piotroskiVars>>

\* the month buying_in_January trades in
BuyMonth == 1

\* the month sell_in_December trades in
SellMonth == 12

BuyOrders(list, w, ct) ==
    OrdersFor(list, ct, "buying_in_January", "order_target_percent", w, ct)

buying_in_January(ct) ==
    /\ Runs("magic", "buying_in_January")
    /\ IF month = BuyMonth
       THEN Submit("buying_in_January", BuyOrders(buy_list, weight, ct), ct)
       ELSE NoOrders("buying_in_January")
    /\ Ran
    /\ UNCHANGED <<valueVars, magicVars, acquirerVars, piotroskiVars>>
    /\ UNCHANGED freshVars

\* context.portfolio.positions_value != 0: the algorithm is long only and
\* prices are positive, so the value is 0 exactly when nothing is held.
PositionsValueNonZero(pos) == Held(pos) # {}

\* for stock in positions: if stock not in buy_list.index:
\*     if data.can_trade(stock): order_target(stock, 0)
SellOrders(list, pos, ct) ==
    OrdersFor(SortedSeq(Held(pos)), ct \ Range(list), "sell_in_December",
              "order_target", Zero, ct)

sell_in_December(ct) ==
    /\ Runs("magic", "sell_in_December")
    /\ IF month = SellMonth /\ PositionsValueNonZero(positions)
       THEN Submit("sell_in_December", SellOrders(buy_list, positions, ct), ct)
       ELSE NoOrders("sell_in_December")
    /\ Ran
    /\ UNCHANGED <<valueVars, magicVars, acquirerVars, piotroskiVars>>
    /\ UNCHANGED freshVars

(***************************************************************************)
(* Developed on Black_Cat_Acquirer_Multiple.py                             *)
(***************************************************************************)
\* context.month_to_run before the first rebalance
NoMonth == -1

NUM_STOCKS_TO_BUY == 25

\* the 0.99 of 0.99/context.NUM_STOCKS_TO_BUY
SafetyMargin == Frac(99, 100)

\* The screen ev_over_ebit.bottom(NUM_STOCKS_TO_BUY, mask=...) keeps the rows
\* of lowest EV/EBIT; before_trading_start sorts them, lowest first, and
\* takes their index.
SecurityList(candidates, tb) ==
    HeadN(Dropna(SortValues(candidates, TRUE, tb), candidates),
          NUM_STOCKS_TO_BUY)

SecurityLists(outputs, tbs) ==
    {SecurityList(candidates, tb) : candidates \in outputs, tb \in tbs}

A_before_trading_start(lists) ==
    /\ Runs("acquirer", "before_trading_start")
    /\ \E list \in lists : security_list' = list
    /\ written_today' = TRUE
    /\ NoOrders("before_trading_start")
    /\ Ran
    /\ UNCHANGED <<month_to_run, history>>
    /\ UNCHANGED <<valueVars, magicVars, piotroskiVars>>

\* rebalanceNow
RebalanceNow(anchor, m) == IF anchor = NoMonth THEN TRUE ELSE anchor = m

\* The anchor month overwritten by the month of every invocation
NextMonthToRun_Drift(anchor, m) == m

\* context.month_to_run after the first lines of rebalance
NextMonthToRun(anchor, m) == IF anchor = NoMonth THEN m ELSE anchor

\* The equal weight without the 0.99 margin
TargetWeight_NoMargin == FDiv(Frac(1, 1), NUM_STOCKS_TO_BUY)

\* context.weights[sec] = 0.99/context.NUM_STOCKS_TO_BUY
TargetWeight == FDiv(SafetyMargin, NUM_STOCKS_TO_BUY)

\* context.weights = {}; for sec in security_list: if data.can_trade(sec): ...
\* (the map is rebuilt on every rebalance and read nowhere else, so it is not
\* kept between callbacks)
Weights(list, ct) == [s \in Range(list) \cap ct |-> TargetWeight]

\* The weights ordered one by one instead of handed over as one map
MapOrders_PerSecurity(list, w, ct) ==
    OrdersFor(list, DOMAIN w, "rebalance", "order_target_percent",
              TargetWeight, ct)

\* The entries of the TargetWeights map handed to order_optimal_portfolio.
MapOrders(list, w, ct) ==
    OrdersFor(list, DOMAIN w, "rebalance", "order_optimal_portfolio",
              TargetWeight, ct)

\* TargetWeights takes an asset the map does not name as a target of 0: the
\* platform moves every holding that is not in the map towards nothing.
ImpliedOrders(w, pos, ct) ==
    OrdersFor(SortedSeq(Held(pos)), Held(pos) \ DOMAIN w, "rebalance",
              "order_optimal_portfolio", Zero, ct)

\* The last MonthsPerYear values of rebalanceNow
Remember(h, b) ==
    IF Len(h) < MonthsPerYear THEN Append(h, b) ELSE Append(Tail(h), b)

A_rebalance(ct) ==
    /\ Runs("acquirer", "rebalance")
    /\ month_to_run' = NextMonthToRun(month_to_run, month)
    /\ history' = Remember(history, RebalanceNow(month_to_run, month))
    /\ IF RebalanceNow(month_to_run, month)
       THEN LET w == Weights(security_list, ct)
            IN  /\ last' = [fn |-> "rebalance", acted |-> TRUE]
                /\ can_trade' = ct
                /\ held' = Held(positions)
                /\ log' = log \o MapOrders(security_list, w, ct)
                /\ positions' =
                       Fill(positions,
                            MapOrders(security_list, w, ct)
                                \o ImpliedOrders(w, positions, ct))
                /\ UNCHANGED raised
       ELSE NoOrders("rebalance")
    /\ Ran
    /\ UNCHANGED security_list
    /\ UNCHANGED <<valueVars, magicVars, piotroskiVars>>
    /\ UNCHANGED freshVars

(***************************************************************************)
(* Developed on Guy_Fleury_Piotroski-F-Score.py                            *)
(***************************************************************************)
\* pipe.set_screen(((piotroski >= 7) | (piotroski <= 3)) & ...)
HighScore == 7

LowScore == 3

\* the 10 of .head(10)
HeadCount == 10

\* the 20 of 1.0/20 and -1.0/20
PositionCount == 20

\* A sample of the scores that pass the screen.
PiotroskiScores ==
    {v \in {LowScore - 1, LowScore, HighScore, HighScore + 1} :
        v >= HighScore \/ v <= LowScore}

\* context.long_stocks and context.short_stocks before their first
\* assignment: reading them raises AttributeError.
Unassigned == <<0>>

\* context.results.sort_values('piotroski', ascending=False).head(10)
LongStocks(results, tb) == HeadN(SortValues(results, FALSE, tb), HeadCount)

\* context.results.sort_values('piotroski', ascending=True).head(10)
ShortStocks(results, tb) == HeadN(SortValues(results, TRUE, tb), HeadCount)

set_month_end ==
    /\ Runs("piotroski", "set_month_end")
    /\ is_month_end' = TRUE
    /\ NoOrders("set_month_end")
    /\ Ran
    /\ UNCHANGED <<long_stocks, short_stocks>>
    /\ UNCHANGED <<valueVars, magicVars, acquirerVars>>
    /\ UNCHANGED freshVars

\* The (long_stocks, short_stocks) the pipeline outputs of outputs give.
LongShortLists(outputs, tbs) ==
    {<<LongStocks(results, tbl), ShortStocks(results, tbs2)>> :
        results \in outputs, tbl \in tbs, tbs2 \in tbs}

\* What the platform and pandas may answer the retrieval with: the results,
\* an exception out of pipeline_output (no pipeline output yet), or an
\* exception out of the statements of the try block.
PipelineFaults == {"none", "fetch", "derive"}

\* if context.is_month_end:
\*     context.results = pipeline_output('piotroski')
\*     try: context.long_stocks = ...; context.short_stocks = ...
\*     except: print ("In exception")
P_before_trading_start(lists) ==
    /\ Runs("piotroski", "before_trading_start")
    /\ IF is_month_end
       THEN \E fault \in PipelineFaults :
                CASE fault = "none" ->
                        /\ \E pair \in lists :
                               /\ long_stocks' = pair[1]
                               /\ short_stocks' = pair[2]
                        /\ written_today' = TRUE
                        /\ NoOrders("before_trading_start")
                  [] fault = "fetch" ->
                        /\ UNCHANGED <<long_stocks, short_stocks>>
                        /\ UNCHANGED written_today
                        /\ Raise("before_trading_start")
                  [] fault = "derive" ->
                        /\ UNCHANGED <<long_stocks, short_stocks>>
                        /\ UNCHANGED written_today
                        /\ NoOrders("before_trading_start")
       ELSE /\ UNCHANGED <<long_stocks, short_stocks>>
            /\ UNCHANGED written_today
            /\ NoOrders("before_trading_start")
    /\ Ran
    /\ UNCHANGED is_month_end
    /\ UNCHANGED <<valueVars, magicVars, acquirerVars>>

LongTarget == Frac(1, PositionCount)

ShortTarget == FNeg(Frac(1, PositionCount))

LongOrders(list, ct) ==
    OrdersFor(list, ct, "trade_long", "order_target_percent", LongTarget, ct)

trade_long(ct) ==
    /\ Runs("piotroski", "trade_long")
    /\ IF long_stocks = Unassigned
       THEN Raise("trade_long")
       ELSE Submit("trade_long", LongOrders(long_stocks, ct), ct)
    /\ Ran
    /\ UNCHANGED <<valueVars, magicVars, acquirerVars, piotroskiVars>>
    /\ UNCHANGED freshVars

ShortOrders(list, ct) ==
    OrdersFor(list, ct, "trade_short", "order_target_percent", ShortTarget, ct)

trade_short(ct) ==
    /\ Runs("piotroski", "trade_short")
    /\ IF short_stocks = Unassigned
       THEN Raise("trade_short")
       ELSE Submit("trade_short", ShortOrders(short_stocks, ct), ct)
    /\ Ran
    /\ UNCHANGED <<valueVars, magicVars, acquirerVars, piotroskiVars>>
    /\ UNCHANGED freshVars

\* for stock in positions: if stock not in long_stocks.index and stock not
\*     in short_stocks.index: order_target_percent(stock, 0)
TradeOrders(longs, shorts, pos, ct) ==
    OrdersFor(SortedSeq(Held(pos)),
              Held(pos) \ (Range(longs) \cup Range(shorts)), "trade",
              "order_target_percent", Zero, ct)

trade(ct) ==
    /\ Runs("piotroski", "trade")
    /\ IF long_stocks = Unassigned \/ short_stocks = Unassigned
       THEN Raise("trade") /\ UNCHANGED is_month_end
       ELSE /\ Submit("trade",
                      TradeOrders(long_stocks, short_stocks, positions, ct), ct)
            /\ is_month_end' = FALSE
    /\ Ran
    /\ UNCHANGED <<long_stocks, short_stocks>>
    /\ UNCHANGED <<valueVars, magicVars, acquirerVars>>
    /\ UNCHANGED freshVars

(***************************************************************************)
(* The backtests                                                           *)
(***************************************************************************)
Algos == {"value", "magic", "acquirer", "piotroski"}

NFIdle == nf_in = <<>> /\ nf_out = <<>> /\ nf_done = FALSE

\* No pipeline is modelled: before_trading_start takes the lists it may give.
PipeIdle == pipeline_out = <<>>

\* No factor of the pipeline is modelled.
RatioIdle ==
    /\ fx_ebit = <<>>
    /\ fx_ev = <<>>
    /\ fx_roic = <<>>
    /\ fx_universe = {}
    /\ fx_ratio = <<>>
    /\ fx_stage = "idle"

\* The screen of the Value pipeline is not modelled.
VolIdle ==
    /\ vol_close = <<>>
    /\ vol_universe = {}
    /\ vol_momentum = {}
    /\ vol_out = <<>>
    /\ vol_rank = <<>>
    /\ vol_screen = {}
    /\ vol_stage = "idle"

TTMIdle ==
    /\ ttm_values = <<>>
    /\ ttm_dates = <<>>
    /\ ttm_factor = 0
    /\ ttm_asof = 0
    /\ ttm_done = FALSE

\* The context as initialize leaves it, at the start of a day on which the
\* book holds the positions pos.
ContextWith(pos) ==
    /\ pc = 1
    /\ raised = FALSE
    /\ positions = pos
    /\ log = <<>>
    /\ can_trade = {}
    /\ held = {}
    /\ last = [fn |-> "none", acted |-> FALSE]
    /\ written_today = FALSE
    /\ long_list = <<>>
    /\ buy_list = <<>>
    /\ weight = Zero
    /\ month_to_run = NoMonth
    /\ security_list = <<>>
    /\ history = <<>>
    /\ long_stocks = Unassigned
    /\ short_stocks = Unassigned

\* The context as initialize leaves it and an empty book over the assets U.
FreshContext(U) == ContextWith([s \in U |-> 0])

AlgoIdle ==
    /\ algo = "none"
    /\ month = 1
    /\ day = 1
    /\ is_month_end = FALSE
    /\ FreshContext({})

\* A backtest starts on any trading day of any month.
Init ==
    /\ algo \in Algos
    /\ month \in 1..MonthsPerYear
    /\ day \in 1..DaysPerMonth
    /\ is_month_end = FALSE
    /\ FreshContext(Securities)
    /\ NFIdle
    /\ TTMIdle
    /\ PipeIdle
    /\ RatioIdle
    /\ VolIdle

\* ranking_score is an ordinal rank: no two rows share one.
ValueOutputs ==
    {f \in Frames(Securities, {NaN} \cup (1..MaxScore)) :
        \A a, b \in DOMAIN f : a # b /\ f[a] = f[b] => f[a] = NaN}

\* MagicFormula_rank is a sum of two ranks: rows may share one.
MagicOutputs == Frames(Securities, {NaN} \cup (1..MaxScore))

\* ev_over_ebit of the rows that pass the mask
AcquirerCandidates == Frames(Securities, 1..MaxScore)

PiotroskiResults == Frames(Securities, PiotroskiScores)

Tradable == SUBSET Securities

\* What before_trading_start may compute on a day, per algorithm.
DayLongLists == ValueLongLists(ValueOutputs, TieBreaks)

DayBuyLists == MagicBuyLists(MagicOutputs, TieBreaks)

DaySecurityLists == SecurityLists(AcquirerCandidates, TieBreaks)

DayLongShortLists == LongShortLists(PiotroskiResults, TieBreaks)

ValueNext ==
    \/ V_before_trading_start(DayLongLists)
    \/ \E ct \in Tradable : V_rebalance(ct)

MagicNext ==
    \/ M_before_trading_start(DayBuyLists)
    \/ \E ct \in Tradable : buying_in_January(ct)
    \/ \E ct \in Tradable : sell_in_December(ct)

AcquirerNext ==
    \/ A_before_trading_start(DaySecurityLists)
    \/ \E ct \in Tradable : A_rebalance(ct)

PiotroskiNext ==
    \/ set_month_end
    \/ P_before_trading_start(DayLongShortLists)
    \/ \E ct \in Tradable : trade_long(ct)
    \/ \E ct \in Tradable : trade_short(ct)
    \/ \E ct \in Tradable : trade(ct)

Next == ValueNext \/ MagicNext \/ AcquirerNext \/ PiotroskiNext \/ NextDay

vars == <<engineVars, algoVars>>

Spec == Init /\ [][Next]_vars

ValueInit == Init /\ algo = "value"

ValueStep == ValueNext \/ NextDay

SpecValue == ValueInit /\ [][ValueStep]_vars

MagicInit == Init /\ algo = "magic"

MagicStep == MagicNext \/ NextDay

SpecMagic == MagicInit /\ [][MagicStep]_vars

AcquirerInit == Init /\ algo = "acquirer"

AcquirerStep == AcquirerNext \/ NextDay

SpecAcquirer == AcquirerInit /\ [][AcquirerStep]_vars

PiotroskiInit == Init /\ algo = "piotroski"

PiotroskiStep == PiotroskiNext \/ NextDay

SpecPiotroski == PiotroskiInit /\ [][PiotroskiStep]_vars

(***************************************************************************)
(* One rebalance day over a large universe: the selection sizes around the *)
(* 25, 10 and 20 of the code                                               *)
(***************************************************************************)
\* Bounds: the rows a pipeline output may have, the best-ranked assets the
\* platform may report as not tradable.
MaxRows == 27
MaxUntradable == 2
MaxNaN == 2

ManySecurities == 1..MaxRows

\* Row i has rank i, so no two rows share a key and the sort has one result.
RankOrder == [i \in ManySecurities |-> i]

\* n rows ranked 1..n, the last nan of them without a score
RankedFrame(n, nan) == [i \in 1..n |-> IF i > n - nan THEN NaN ELSE i]

RankedOutputs ==
    {RankedFrame(n, nan) : n \in 0..MaxRows, nan \in 0..MaxNaN} \
        {RankedFrame(0, nan) : nan \in 1..MaxNaN}

\* n rows, the first half of them with a high F-score, the others a low one
ScoredFrame(n) == [i \in 1..n |-> IF 2 * i <= n THEN HighScore ELSE LowScore]

ScoredOutputs == {ScoredFrame(n) : n \in 0..MaxRows}

\* What before_trading_start computes from today's pipeline output
SizedLongLists == ValueLongLists({pipeline_out}, {RankOrder})

SizedBuyLists == MagicBuyLists({pipeline_out}, {RankOrder})

SizedSecurityLists == SecurityLists({pipeline_out}, {RankOrder})

SizedLongShortLists == LongShortLists({pipeline_out}, {RankOrder})

\* All assets tradable but the u best ranked
SizedTradable == {ManySecurities \ (1..u) : u \in 0..MaxUntradable}

\* The book at the start of the day: empty, or one long position in the
\* worst-ranked asset, bought on an earlier day.
SizedPositions ==
    {[s \in ManySecurities |-> IF s \in H THEN 1 ELSE 0] : H \in {{}, {MaxRows}}}

\* The start of a day on which the algorithm's order callbacks are due, in
\* the month the Magic Formula buys in or in the month it sells in.
SizesInit ==
    /\ algo \in Algos
    /\ month \in {BuyMonth, SellMonth}
    /\ day = CASE algo = "magic" -> Min(BuyDaysOffset + 1, DaysPerMonth)
               [] algo = "piotroski" -> DaysPerMonth
               [] OTHER -> 1
    /\ is_month_end = (algo = "piotroski")
    /\ \E pos \in SizedPositions : ContextWith(pos)
    /\ pipeline_out \in IF algo = "piotroski" THEN ScoredOutputs
                        ELSE RankedOutputs
    /\ NFIdle
    /\ TTMIdle
    /\ RatioIdle
    /\ VolIdle

SizesNext ==
    \/ V_before_trading_start(SizedLongLists)
    \/ \E ct \in SizedTradable : V_rebalance(ct)
    \/ M_before_trading_start(SizedBuyLists)
    \/ \E ct \in SizedTradable : buying_in_January(ct)
    \/ \E ct \in SizedTradable : sell_in_December(ct)
    \/ A_before_trading_start(SizedSecurityLists)
    \/ \E ct \in SizedTradable : A_rebalance(ct)
    \/ P_before_trading_start(SizedLongShortLists)
    \/ \E ct \in SizedTradable : trade_long(ct)
    \/ \E ct \in SizedTradable : trade_short(ct)
    \/ \E ct \in SizedTradable : trade(ct)

SpecSizes == SizesInit /\ [][SizesNext]_vars

(***************************************************************************)
(* The ratio factors and the pipelines that rank them: Earnings_Yield and  *)
(* make_pipeline of My_Magic_Formula.py, ev_over_ebit and make_pipeline of *)
(* Developed on Black_Cat_Acquirer_Multiple.py                             *)
(***************************************************************************)
\* A float64 is num/den in lowest terms with den > 0, or one of the three
\* values below.
FloatNaN == [num |-> 0, den |-> 0]

PosInf == [num |-> 1, den |-> 0]

NegInf == [num |-> -1, den |-> 0]

Float(k) == Frac(k, 1)

\* a / b of two float64 arrays, elementwise (numpy and the pipeline engine
\* follow IEEE 754: a division by zero gives an infinity or NaN and a
\* warning, never an exception).
NpDivide(a, b) ==
    IF a = FloatNaN \/ b = FloatNaN THEN FloatNaN
    ELSE IF b.num = 0
         THEN (IF a.num > 0 THEN PosInf
               ELSE IF a.num < 0 THEN NegInf ELSE FloatNaN)
         ELSE IF b.num > 0 THEN Frac(a.num * b.den, a.den * b.num)
              ELSE Frac(-(a.num * b.den), a.den * (-b.num))

\* a < b for two floats that are not NaN
FloatLess(a, b) ==
    IF a.den = 0 /\ b.den = 0 THEN a.num < b.num
    ELSE a.num * b.den < b.num * a.den

\* factor.rank(ascending=asc, mask=mask): ordinal ranks 1, 2, ... of the
\* assets of the mask whose value is a number, equal values in asset order;
\* NaN for the other assets.
Rank(f, mask, asc) ==
    [s \in DOMAIN f |->
        IF s \notin mask \/ f[s] = FloatNaN THEN NaN
        ELSE 1 + Cardinality(
                 {t \in mask :
                     /\ f[t] # FloatNaN
                     /\ \/ asc /\ FloatLess(f[t], f[s])
                        \/ ~asc /\ FloatLess(f[s], f[t])
                        \/ f[t] = f[s] /\ t < s})]

\* The sum of two rank columns: NaN where either is NaN
AddRanks(a, b) ==
    [s \in DOMAIN a |-> IF a[s] = NaN \/ b[s] = NaN THEN NaN ELSE a[s] + b[s]]

\* Sample fundamentals: missing, negative, zero and positive.
RatioInputs == {FloatNaN, Float(-1), Float(0), Float(2)}

RoicInputs == {FloatNaN, Float(1), Float(2)}

\* The fundamentals the pipeline engine reads on the day.
RatioInit ==
    /\ fx_ebit \in [Securities -> RatioInputs]
    /\ fx_ev \in [Securities -> RatioInputs]
    /\ fx_roic \in [Securities -> IF algo = "magic" THEN RoicInputs ELSE {FloatNaN}]
    /\ fx_universe \in SUBSET Securities
    /\ fx_ratio = <<>>
    /\ fx_stage = "inputs"
    /\ pipeline_out = <<>>

\* Earnings_Yield.compute: ey = ebit[-1] / ev[-1]; out[:] = ey
EarningsYieldCompute ==
    /\ algo = "magic"
    /\ fx_stage = "inputs"
    /\ fx_ratio' = [s \in Securities |-> NpDivide(fx_ebit[s], fx_ev[s])]
    /\ fx_stage' = "factors"
    /\ UNCHANGED <<fx_ebit, fx_ev, fx_roic, fx_universe, pipeline_out>>
    /\ UNCHANGED <<nfVars, ttmVars, volVars, algoVars>>

\* Magic_Formula_rank = EY_rank + roic_rank, both ranked descending over the
\* universe; the screen is the universe.
MagicFormulaRank(ey, roic, universe) ==
    LET ranks == AddRanks(Rank(ey, universe, FALSE), Rank(roic, universe, FALSE))
    IN  [s \in universe |-> ranks[s]]

\* make_pipeline of the Magic Formula, run by the engine for the day
MagicPipeline ==
    /\ algo = "magic"
    /\ fx_stage = "factors"
    /\ pipeline_out' = MagicFormulaRank(fx_ratio, fx_roic, fx_universe)
    /\ fx_stage' = "output"
    /\ UNCHANGED <<fx_ebit, fx_ev, fx_roic, fx_universe, fx_ratio>>
    /\ UNCHANGED <<nfVars, ttmVars, volVars, algoVars>>

\* ev_over_ebit = ev / ebit_ttm
EvOverEbit ==
    /\ algo = "acquirer"
    /\ fx_stage = "inputs"
    /\ fx_ratio' = [s \in Securities |-> NpDivide(fx_ev[s], fx_ebit[s])]
    /\ fx_stage' = "factors"
    /\ UNCHANGED <<fx_ebit, fx_ev, fx_roic, fx_universe, pipeline_out>>
    /\ UNCHANGED <<nfVars, ttmVars, volVars, algoVars>>

\* negative_earnings = ebit_ttm < 0 (False for NaN); the mask of the screen
\* is base_universe & tradeable_stocks, of which ~negative_earnings is part.
AcquirerMask(ebit, universe) ==
    {s \in universe : ~(ebit[s] # FloatNaN /\ FloatLess(ebit[s], Float(0)))}

\* ev_over_ebit.bottom(NUM_STOCKS_TO_BUY, mask=...) ranks the ratio ascending
\* over the mask; the rows are kept with that rank as their key.
AcquirerRanks(ratio, mask) ==
    LET ranks == Rank(ratio, mask, TRUE) IN [s \in mask |-> ranks[s]]

\* make_pipeline of the Acquirer's Multiple, run by the engine for the day
AcquirerPipeline ==
    /\ algo = "acquirer"
    /\ fx_stage = "factors"
    /\ pipeline_out' = AcquirerRanks(fx_ratio, AcquirerMask(fx_ebit, fx_universe))
    /\ fx_stage' = "output"
    /\ UNCHANGED <<fx_ebit, fx_ev, fx_roic, fx_universe, fx_ratio>>
    /\ UNCHANGED <<nfVars, ttmVars, volVars, algoVars>>

RatioSelectMagic ==
    /\ fx_stage = "output"
    /\ M_before_trading_start(MagicBuyLists({pipeline_out}, TieBreaks))

RatioSelectAcquirer ==
    /\ fx_stage = "output"
    /\ A_before_trading_start(SecurityLists({pipeline_out}, TieBreaks))

RatioNext ==
    \/ EarningsYieldCompute
    \/ MagicPipeline
    \/ RatioSelectMagic
    \/ EvOverEbit
    \/ AcquirerPipeline
    \/ RatioSelectAcquirer

RatiosInit ==
    /\ algo \in {"magic", "acquirer"}
    /\ month = 1
    /\ day = 1
    /\ is_month_end = FALSE
    /\ FreshContext(Securities)
    /\ RatioInit
    /\ VolIdle
    /\ NFIdle
    /\ TTMIdle

SpecRatios == RatiosInit /\ [][RatioNext]_vars

(***************************************************************************)
(* The screen of the Value pipeline: Volatility and make_pipeline of       *)
(* My_Value_Long_only_Algo.py                                              *)
(***************************************************************************)
\* window_length of Volatility
VolWindow == 15

\* the 600 of volatility_rank.top(600)
VolTop == 600

\* Bound: the days of the window on which a sample close differs
MaxSpread == 2

\* np.std(close, axis=0) of one column, as N^2 times the variance,
\* N * sum(x^2) - sum(x)^2: the standard deviation is its square root over
\* N and the ranking reads only the order, which both keep.
StdKey(col) ==
    Len(col) * SeqSum([t \in DOMAIN col |-> col[t] * col[t]])
        - SeqSum(col) * SeqSum(col)

\* out[:] = np.std(close, axis=0)
VolatilityOf(close) ==
    [s \in DOMAIN close[1] |->
        Float(StdKey([t \in DOMAIN close |-> close[t][s]]))]

\* A rank column as the float column the next ranking reads
RankColumn(r) == [s \in DOMAIN r |-> IF r[s] = NaN THEN FloatNaN ELSE Float(r[s])]

\* factor.top(n): the assets whose descending rank is at most n
Top(f, n) ==
    LET ranks == Rank(f, DOMAIN f, FALSE)
    IN  {s \in DOMAIN f : ranks[s] # NaN /\ ranks[s] <= n}

\* Windows of a few assets: asset s closes at 2 on its first k[s] days and
\* at 1 afterwards.
SmallWindows ==
    {[t \in 1..VolWindow |-> [s \in DOMAIN k |-> IF t <= k[s] THEN 2 ELSE 1]] :
        k \in UNION {[1..n -> 0..MaxSpread] : n \in 1..NumSec}}

\* Windows of 600 and of 601 assets, all flat but asset p.
LargeWindows ==
    {[t \in 1..VolWindow |-> [s \in 1..n |-> IF s = p /\ t = 1 THEN 2 ELSE 1]] :
        n \in {VolTop, VolTop + 1}, p \in {1, VolTop}}

\* The day's closes, universe and momentum filter
VolInit ==
    /\ \/ /\ vol_close \in SmallWindows
          /\ vol_universe \in SUBSET DOMAIN vol_close[1]
          /\ vol_momentum \in SUBSET DOMAIN vol_close[1]
       \/ /\ vol_close \in LargeWindows
          /\ vol_universe = DOMAIN vol_close[1]
          /\ vol_momentum = DOMAIN vol_close[1]
    /\ vol_out = <<>>
    /\ vol_rank = <<>>
    /\ vol_screen = {}
    /\ vol_stage = "inputs"

\* Volatility.compute
VolatilityCompute ==
    /\ vol_stage = "inputs"
    /\ vol_out' = VolatilityOf(vol_close)
    /\ vol_stage' = "factor"
    /\ UNCHANGED <<vol_close, vol_universe, vol_momentum, vol_rank, vol_screen>>
    /\ UNCHANGED <<nfVars, ttmVars, pipeVars, ratioVars, algoVars>>

\* volatility_rank = volatility.rank(mask=universe, ascending=True)
VolatilityRank ==
    /\ vol_stage = "factor"
    /\ vol_rank' = Rank(vol_out, vol_universe, TRUE)
    /\ vol_stage' = "rank"
    /\ UNCHANGED <<vol_close, vol_universe, vol_momentum, vol_out, vol_screen>>
    /\ UNCHANGED <<nfVars, ttmVars, pipeVars, ratioVars, algoVars>>

\* pipe.set_screen(universe & (volatility_rank.top(600)) & (momentum>1))
SetScreen ==
    /\ vol_stage = "rank"
    /\ vol_screen' =
           vol_universe \cap Top(RankColumn(vol_rank), VolTop) \cap vol_momentum
    /\ vol_stage' = "screen"
    /\ UNCHANGED <<vol_close, vol_universe, vol_momentum, vol_out, vol_rank>>
    /\ UNCHANGED <<nfVars, ttmVars, pipeVars, ratioVars, algoVars>>

VolNext == VolatilityCompute \/ VolatilityRank \/ SetScreen

VolatilityInit ==
    /\ VolInit
    /\ NFIdle
    /\ TTMIdle
    /\ PipeIdle
    /\ RatioIdle
    /\ AlgoIdle

SpecVolatility == VolatilityInit /\ [][VolNext]_vars

NanfillNext ==
    FactorCompute /\ UNCHANGED <<ttmVars, pipeVars, ratioVars, volVars, algoVars>>

NanfillInit ==
    NFInit /\ TTMIdle /\ PipeIdle /\ RatioIdle /\ VolIdle /\ AlgoIdle

SpecNanfill == NanfillInit /\ [][NanfillNext]_vars

TTMNext ==
    TTMCompute /\ UNCHANGED <<nfVars, pipeVars, ratioVars, volVars, algoVars>>

TrailingInit ==
    TTMInit /\ NFIdle /\ PipeIdle /\ RatioIdle /\ VolIdle /\ AlgoIdle

SpecTTM == TrailingInit /\ [][TTMNext]_vars

(***************************************************************************)
(* Properties                                                              *)
(***************************************************************************)
Entries(fn) == {i \in DOMAIN log : log[i].fn = fn}

\* The sum of the absolute values of the targets of a sequence of orders
RECURSIVE SumAbs(_)
SumAbs(orders) ==
    IF orders = <<>> THEN Zero
    ELSE FAdd(FAbs(Head(orders).target), SumAbs(Tail(orders)))

\* The sum of the targets of a sequence of orders
RECURSIVE SumTargets(_)
SumTargets(orders) ==
    IF orders = <<>> THEN Zero
    ELSE FAdd(Head(orders).target, SumTargets(Tail(orders)))

Fired(h) == {i \in DOMAIN h : h[i]}

C1_Anchored ==
    algo = "acquirer" =>
        /\ (history = <<>>) <=> (month_to_run = NoMonth)
        /\ month_to_run # NoMonth => month_to_run \in 1..MonthsPerYear
        /\ last.fn = "rebalance" =>
              /\ last.acted <=> (month = month_to_run)
              /\ last.acted = history[Len(history)]
        /\ history # <<>> => Cardinality(Fired(history)) = 1

C1_AnchorStep ==
    /\ month_to_run # NoMonth => month_to_run' = month_to_run
    /\ month_to_run = NoMonth /\ month_to_run' # NoMonth =>
          month_to_run' = month /\ last'.acted /\ last'.fn = "rebalance"
    /\ history' # history => last'.fn = "rebalance"

\* C1: in the Acquirer's Multiple algorithm the first invocation of rebalance
\* records its month in context.month_to_run and rebalances; month_to_run
\* never changes afterwards; every invocation rebalances if and only if its
\* month is month_to_run; so among any 12 consecutive monthly invocations
\* (and among the invocations so far, while there are fewer) exactly one
\* rebalances.
C1_YearlyRebalance == []C1_Anchored /\ [][C1_AnchorStep]_vars

\* A rebalance a year after the first one, eleven idle invocations between.
C1_Witness ==
    /\ algo = "acquirer"
    /\ last.fn = "rebalance" /\ last.acted
    /\ Len(history) = MonthsPerYear
    /\ Fired(history) = {MonthsPerYear}

\* The orders of the last callback that ask for target zero
ZeroTargeted == {log[i].sec : i \in {j \in Entries(last.fn) : log[j].target = Zero}}

\* The assets the last callback gave a target other than zero
Targeted == {log[i].sec : i \in {j \in Entries(last.fn) : log[j].target # Zero}}

\* The selection the last callback traded on
Selection ==
    CASE algo = "value" -> Range(long_list)
      [] algo = "magic" -> Range(buy_list)
      [] algo = "acquirer" -> Range(security_list)
      [] algo = "piotroski" -> Range(long_stocks) \cup Range(short_stocks)
      [] OTHER -> {}

\* The last callback was a rebalance of the algorithm: the monthly rebalance
\* (Value), a rebalance that fired (Acquirer's Multiple), the month-end trade
\* (Piotroski), the January purchase or a December sale (Magic Formula).
Rebalanced ==
    /\ last.acted
    /\ \/ algo \in {"value", "acquirer"} /\ last.fn = "rebalance"
       \/ algo = "piotroski" /\ last.fn = "trade"
       \/ algo = "magic" /\ last.fn \in {"buying_in_January", "sell_in_December"}

\* C2: at every rebalance of every algorithm, a security held from before,
\* absent from the selection and tradable receives the target zero (in the
\* Acquirer's Multiple a security the TargetWeights map does not name has the
\* target zero).
C2_Liquidation ==
    Rebalanced =>
        \A s \in (held \ Selection) \cap can_trade :
            IF algo = "acquirer" THEN s \notin Targeted ELSE s \in ZeroTargeted

\* The rebalance orders of today: the buy and short orders of the selection
BuyEntries == {i \in DOMAIN log : log[i].target # Zero}

\* C3: at every rebalance of every algorithm, for every selection size, the
\* absolute values of the targets requested sum to at most the gross
\* leverage cap 1.0, and in the Value and Magic Formula algorithms no target
\* exceeds the position cap 0.04.
C3_LeverageAndPositionCap ==
    /\ FLeq(SumAbs(log), Frac(1, 1))
    /\ algo \in {"value", "magic"} =>
          \A i \in DOMAIN log : FLeq(log[i].target, Frac(4, 100))

\* A full selection of 25 bought at 4 % each: gross leverage exactly 1.0
C3_Witness ==
    /\ algo = "value" /\ last.fn = "rebalance"
    /\ Len(long_list) = 25
    /\ Cardinality(BuyEntries) = 25
    /\ SumAbs(log) = Frac(1, 1)

\* The weight the claim gives a selection of n > 0 securities
ClampedWeight(n) == IF 100 > 4 * n THEN Frac(4, 100) ELSE Frac(1, n)

\* C4: in the Value rebalance and in the Magic Formula before_trading_start,
\* for a selection of n > 0 securities, the weight of every order is 0.04 when
\* 1.0/n exceeds 0.04 (clamped, not scaled), and 1.0/n otherwise.
C4_ClampedWeight ==
    /\ algo = "value" /\ last.fn = "rebalance" /\ long_list # <<>> =>
          \A i \in BuyEntries : log[i].target = ClampedWeight(Len(long_list))
    /\ algo = "magic" /\ buy_list # <<>> =>
          /\ weight = ClampedWeight(Len(buy_list))
          /\ \A i \in BuyEntries : log[i].target = weight

\* One security selected: it is bought at 0.04, not at 1.0
C4_Witness ==
    /\ algo = "magic" /\ last.fn = "buying_in_January"
    /\ Len(buy_list) = 1
    /\ \E i \in BuyEntries : log[i].target = Frac(4, 100)

AcquirerFired == algo = "acquirer" /\ last.fn = "rebalance" /\ last.acted

\* C5 as stated: on every rebalance that fires in the Acquirer's Multiple,
\* each selected security has the target weight 0.99/25 and the weights of
\* the map sum to 0.99.
C5_WeightsSumTo99 ==
    AcquirerFired =>
        /\ \A s \in Range(security_list) :
              \E i \in DOMAIN log : log[i].sec = s /\ log[i].target = Frac(99, 2500)
        /\ SumTargets(log) = Frac(99, 100)

\* C5 as amended: on every rebalance that fires, the map names exactly the
\* selected securities that are tradable, each at 0.99/25 = 0.0396, so its
\* weights sum to 0.0396 * k for the k <= 25 tradable selected securities:
\* to 0.99 exactly when 25 securities are selected and all can be traded.
C5_WeightsOfTradable ==
    AcquirerFired =>
        LET k == Cardinality(Range(security_list) \cap can_trade)
        IN  /\ {log[i].sec : i \in DOMAIN log} = Range(security_list) \cap can_trade
            /\ Len(log) = k
            /\ \A i \in DOMAIN log : log[i].target = Frac(99, 2500)
            /\ k <= 25
            /\ SumTargets(log) = Frac(99 * k, 2500)
            /\ (SumTargets(log) = Frac(99, 100)) <=> (k = 25)

\* 25 selected, all tradable: the map sums to 0.99
C5_Witness ==
    /\ AcquirerFired
    /\ Len(log) = 25
    /\ SumTargets(log) = Frac(99, 100)

\* The last callback allocated weights or placed orders on an empty selection.
EmptySelection ==
    \/ algo = "value" /\ last.fn = "rebalance" /\ long_list = <<>>
    \/ algo = "magic" /\ buy_list = <<>>
          /\ last.fn \in {"before_trading_start", "buying_in_January"}
    \/ algo = "acquirer" /\ last.fn = "rebalance" /\ security_list = <<>>
    \/ algo = "piotroski" /\ long_stocks = <<>> /\ short_stocks = <<>>
          /\ last.fn \in {"trade_long", "trade_short", "trade"}

\* C6: in every algorithm, a rebalance on an empty selection divides by no
\* selection size and raises nothing, and issues no order with a target
\* other than zero; the weight the Magic Formula keeps is zero.
C6_EmptySelection ==
    EmptySelection =>
        /\ ~raised
        /\ BuyEntries = {}
        /\ algo = "magic" => weight = Zero

\* The Value rebalance ran on an empty long list.
C6_Witness ==
    /\ algo = "value" /\ last.fn = "rebalance" /\ last.acted
    /\ long_list = <<>>
    /\ ~raised

\* C7: in every algorithm, no order is ever submitted for a security the
\* platform reports as not tradable.
C7_OnlyTradableOrdered == \A i \in DOMAIN log : log[i].tradable

\* The value the claim gives entry (i, j): itself, or for a NaN the last
\* number above it in its column, or NaN when there is none.
ForwardFilled(arr, i, j) ==
    IF arr[i][j] # NaN THEN arr[i][j]
    ELSE LET above == {k \in 1..(i - 1) : arr[k][j] # NaN}
         IN  IF above = {} THEN NaN ELSE arr[SetMax(above)][j]

\* C8: nanfill replaces each NaN by the most recent earlier value of the
\* same security (same column, earlier row), leaves a NaN without one as
\* NaN, and lets no value pass from one security's column to another's.
C8_ForwardFillPerColumn ==
    nf_done =>
        \A i \in DOMAIN nf_in : \A j \in DOMAIN nf_in[i] :
            nf_out[i][j] = ForwardFilled(nf_in, i, j)

\* The rows whose as-of date is within 52 weeks of the last row's and is
\* not the date of an earlier row
FirstOfDate(d) ==
    {i \in DOMAIN d :
        /\ d[Len(d)] - d[i] < 52
        /\ \A k \in 1..(i - 1) : d[k] # d[i]}

RECURSIVE SumOver(_, _)
SumOver(v, I) ==
    IF I = {} THEN 0
    ELSE LET i == CHOOSE x \in I : TRUE IN v[i] + SumOver(v, I \ {i})

C10_LongShortDisjoint ==
    long_stocks # Unassigned /\ short_stocks # Unassigned =>
        Range(long_stocks) \cap Range(short_stocks) = {}

\* The securities that pass today's screen (for the Acquirer's Multiple: the
\* mask of its bottom-25 screen)
Eligible == DOMAIN pipeline_out

\* The eligible securities whose ranking value is a number
Ranked == {s \in Eligible : pipeline_out[s] # NaN}

\* before_trading_start of a strategy that requests 25 has just selected
Selected25 ==
    /\ algo \in {"value", "magic", "acquirer"}
    /\ last.fn = "before_trading_start"

\* C11 as stated: the Selection Set that before_trading_start computes has
\* exactly 25 members when at least 25 securities are eligible and exactly
\* k members when k < 25 are, and holds eligible securities only.
C11_SelectionSize ==
    Selected25 =>
        /\ Selection \subseteq Eligible
        /\ Cardinality(Selection) = Min(25, Cardinality(Eligible))

\* C11 as amended: the Selection Set holds only eligible securities whose
\* ranking value is not NaN: exactly 25 of them when at least 25 eligible
\* securities have a ranking value, all k of them when only k < 25 have
\* one, and always the best ranked ones.
C11_SelectionOfRanked ==
    Selected25 =>
        /\ Selection \subseteq Ranked
        /\ Cardinality(Selection) = Min(25, Cardinality(Ranked))
        /\ \A s \in Selection : \A t \in Ranked \ Selection :
              pipeline_out[s] <= pipeline_out[t]

\* 26 securities pass the screen, 24 of them with a ranking value: the
\* long list has 24 members.
C11_Witness ==
    /\ algo = "value" /\ last.fn = "before_trading_start"
    /\ Cardinality(Eligible) = 26
    /\ Cardinality(Ranked) = 24
    /\ Len(long_list) = 24

\* The callbacks that place orders
OrderCallbacks ==
    {"rebalance", "trade_long", "trade_short", "trade", "buying_in_January",
     "sell_in_December"}

\* C12: in every strategy, whenever an order-placing callback runs, the
\* selection list it reads was written by before_trading_start earlier on the
\* same day, from that day's pipeline output; it never works on a list left
\* from an earlier day (or on no list at all).
C12_FreshSelection == last.fn \in OrderCallbacks => written_today

\* The order functions that take one security and one target
PerSecurityApis == {"order_target_percent", "order_target"}

\* C13 as stated: on every rebalance every strategy hands its targets to the
\* platform as one target-weight map and places no per-security
\* target-percent or target-share order.
C13_SingleTargetMap ==
    \A i \in DOMAIN log : log[i].api = "order_optimal_portfolio"

\* C13 as amended: on every rebalance the Acquirer's Multiple hands all its
\* targets to the platform as the one TargetWeights map of its one
\* order_optimal_portfolio call and places no per-security order; the Value,
\* Magic Formula and Piotroski strategies submit no map but one
\* order_target_percent per security they buy or short, and liquidate with
\* one order_target (Value, Magic Formula) or order_target_percent
\* (Piotroski) of zero per security.
C13_MapOrPerSecurity ==
    \A i \in DOMAIN log :
        CASE algo = "acquirer" ->
                log[i].fn = "rebalance" /\ log[i].api = "order_optimal_portfolio"
          [] algo = "piotroski" -> log[i].api = "order_target_percent"
          [] OTHER ->
                log[i].api =
                    IF log[i].target = Zero THEN "order_target"
                    ELSE "order_target_percent"

\* A map of 24 targets went out in the one call of the day's rebalance.
C13_Witness ==
    /\ algo = "acquirer" /\ last.fn = "rebalance" /\ last.acted
    /\ Len(log) = 24
    /\ \A i \in DOMAIN log : log[i].api \notin PerSecurityApis

\* sell_in_December has just run on a December day with positions held
DecemberSale ==
    /\ algo = "magic"
    /\ last.fn = "sell_in_December"
    /\ month = SellMonth
    /\ held # {}

\* C14: in the Magic Formula strategy, sell_in_December, run on a December
\* day on which the portfolio holds positions, orders a target of zero
\* shares for every tradable position, so that no position is left once
\* every position has been tradable at a December close.
C14_SellAllInDecember ==
    DecemberSale =>
        /\ last.acted
        /\ \A s \in held \cap can_trade :
              /\ s \in ZeroTargeted
              /\ positions[s] = 0

\* The denominator of the ratio factor: enterprise value in Earnings_Yield,
\* TTM EBIT in ev_over_ebit
Denominator(s) == IF algo = "magic" THEN fx_ev[s] ELSE fx_ebit[s]

BadDenominator == {s \in Securities : Denominator(s) \in {FloatNaN, Float(0)}}

\* C15: for every security whose ratio-factor denominator is 0 or NaN the
\* factor output is NaN, computing it raises nothing, and the security is
\* in no Selection Set.
C15_NaNRatio ==
    /\ fx_stage \in {"factors", "output"} =>
          \A s \in BadDenominator : fx_ratio[s] = FloatNaN
    /\ fx_stage # "idle" => ~raised
    /\ fx_stage = "output" /\ last.fn = "before_trading_start" =>
          BadDenominator \cap Selection = {}

\* The universe securities whose volatility is strictly lower than that of s
LessVolatile(s) ==
    {t \in vol_universe : FloatLess(vol_out[t], vol_out[s])}

\* C16: in the Value strategy the volatility pre-filter retains the 600
\* securities of the universe with the lowest volatility: a security is on
\* the screen only if fewer than 600 universe securities have a strictly
\* lower volatility.
C16_LowestVolatility ==
    vol_stage = "screen" =>
        \A s \in vol_screen : Cardinality(LessVolatile(s)) < VolTop

\* The Piotroski callbacks that read the long and the short list
ListReaders == {"trade_long", "trade_short", "trade"}

\* C17: in the Piotroski algorithm, whatever the day the backtest starts on,
\* whenever trade_long, trade_short or trade runs, long_stocks and
\* short_stocks have been assigned by before_trading_start: no list is read
\* before its first assignment.
C17_ListsAssignedBeforeRead ==
    algo = "piotroski" /\ last.fn \in ListReaders =>
        long_stocks # Unassigned /\ short_stocks # Unassigned

\* C18: in the Piotroski algorithm no exception of the result retrieval of
\* before_trading_start, the fetch of the pipeline output or the derivation
\* of the two lists, leaves the callback: before_trading_start returns
\* normally.
C18_RetrievalNeverRaises ==
    algo = "piotroski" /\ last.fn = "before_trading_start" => ~raised

====
